---- MODULE Spec2Model ----
(***************************************************************************)
(* Session lifecycle and payment settlement of the mentorship marketplace  *)
(* (app/mentorship/routes.py, app/mentorship/payment_routes.py,            *)
(* app/services.py, app/models.py, app/admin/routes.py).                   *)
(*                                                                         *)
(* The state is the content of the database tables the handlers read and   *)
(* write, the calls the payment gateway has accepted, and the last HTTP    *)
(* request with the response it got.  A handler is an operator from its    *)
(* inputs and the current state to its outcome: the response and the       *)
(* tables as it leaves them.  An action is one HTTP request: it installs   *)
(* the outcome of one handler.                                             *)
(***************************************************************************)
EXTENDS Integers, Sequences, FiniteSets, TLC

\* ------------------------------------------------------------------ bounds
MaxSessions == 2
MaxPayments == 2
MaxNotifications == 3
MaxReviews == 1
MaxEmails == 2
MaxRefunds == 1
MaxGatewayPaymentIds == 1
MaxCalendarEvents == 2
MaxSms == 2

\* ------------------------------------------------------------ the population
\* Registered users (User rows); Anonymous is a visitor who is not logged in.
Anonymous == 0
Users == 1 .. 4
Actors == Users \cup {Anonymous}

\* User.role as stored at registration.
RegisteredRole(u) ==
    CASE u = 1 -> "student"
      [] u \in {2, 3} -> "mentor"
      [] OTHER -> "admin"

\* Absent value (None, a missing form field, an id that names no row).
None == 0

\* ------------------------------------------------------------ request inputs
Times == {1}
RespondActions == {"accept", "decline", "other"}
MinAmount == 100
\* (amount, payment_method) pairs a payment form can carry.
PaymentForms == {<<99, "card">>, <<100, "cash">>, <<100, "card">>}
SessionIds == 1 .. MaxSessions
OrderIds == 1 .. MaxPayments
GatewayPaymentIds == 1 .. MaxGatewayPaymentIds

\* The server's workers, each handling one request at a time, and the value
\* of a worker between requests.
Workers == {1, 2}
Idle == [op |-> "idle"]

VARIABLES
    role,           \* User.role, per user id
    sessions,       \* Session rows; a row's id is its index
    reviews,        \* Review rows
    payments,       \* Payment rows; a row's id is its index
    notifications,  \* Notification rows (in-app inbox)
    emails,         \* EmailNotification rows
    orders,         \* orders created at the payment gateway
    refunds,        \* refunds issued by the payment gateway
    last,           \* the last request handled: endpoint and response
    calendar_events,\* CalendarEvent rows
    sms,            \* SMSNotification rows
    inflight,       \* requests that have read a Session and not yet committed
    cache           \* the response cache: the pages stored, by cache key

vars == <<role, sessions, reviews, payments, notifications, emails,
          orders, refunds, last, calendar_events, sms, inflight, cache>>

\* ------------------------------------------------------------------ models
is_student(u) == u # Anonymous /\ role[u] = "student"
is_mentor(u) == u # Anonymous /\ role[u] = "mentor"
is_admin(u) == u # Anonymous /\ role[u] = "admin"

\* Session.query.get(sid) finds a row.
SessionExists(sid) == sid \in 1 .. Len(sessions)

\* Query.first(): the least of the row indices in S, or None when S is empty.
first(S) ==
    IF S = {} THEN None
    ELSE CHOOSE i \in S : \A j \in S : i <= j

\* The response cache after cache.clear().
EmptyCache == {}

Init ==
    /\ role = [u \in Users |-> RegisteredRole(u)]
    /\ sessions = << >>
    /\ reviews = << >>
    /\ payments = << >>
    /\ notifications = << >>
    /\ emails = << >>
    /\ orders = << >>
    /\ refunds = << >>
    /\ last = [op |-> "none", resp |-> "none"]
    /\ calendar_events = << >>
    /\ sms = << >>
    /\ inflight = [w \in Workers |-> Idle]
    /\ cache = EmptyCache

\* The outcome of a request answered without a commit, without a gateway
\* call and without cache.clear(): the response, and every table and the
\* response cache as they are.
Answer(code) ==
    [resp |-> code, role |-> role, sessions |-> sessions, reviews |-> reviews,
     payments |-> payments, notifications |-> notifications, emails |-> emails,
     orders |-> orders, refunds |-> refunds, cache |-> cache]

\* ---------------------------------------------------------- mentor_detail
\* POST /mentors/<user_id> carrying a booking form; when = None is a form
\* that does not validate.
mentor_detail(u, user_id, when) ==
    IF role[user_id] # "mentor" THEN Answer("404")
    ELSE IF when # None /\ u # Anonymous /\ is_student(u)
    THEN [Answer("requested") EXCEPT
            !.cache = EmptyCache,
            !.sessions = Append(sessions,
                [student_id |-> u, mentor_id |-> user_id,
                 scheduled_at |-> when, status |-> "requested"]),
            !.notifications = Append(notifications,
                [user_id |-> user_id, kind |-> "request", by |-> u])]
    ELSE Answer("page")

\* -------------------------------------------------------- respond_request
respond_forbidden_roleOnly(u, sid) == ~is_mentor(u)

\* The authorization test of respond_request.
respond_forbidden(u, sid) == ~is_mentor(u) \/ sessions[sid].mentor_id # u

respond_request_anyAction(u, sid, action) ==
    IF ~SessionExists(sid) THEN Answer("404")
    ELSE IF respond_forbidden(u, sid) THEN Answer("403")
    ELSE [Answer("recorded") EXCEPT
            !.cache = EmptyCache,
            !.sessions = [sessions EXCEPT ![sid].status = action],
            !.notifications = Append(notifications,
                [user_id |-> sessions[sid].student_id, kind |-> action,
                 by |-> u])]

\* GET /requests/<session_id>/respond/<action> by logged-in user u.
respond_request(u, sid, action) ==
    IF ~SessionExists(sid) THEN Answer("404")
    ELSE IF respond_forbidden(u, sid) THEN Answer("403")
    ELSE IF action = "accept"
    THEN [Answer("recorded") EXCEPT
            !.cache = EmptyCache,
            !.sessions = [sessions EXCEPT ![sid].status = "accepted"],
            !.notifications = Append(notifications,
                [user_id |-> sessions[sid].student_id, kind |-> "accepted",
                 by |-> u])]
    ELSE IF action = "decline"
    THEN [Answer("recorded") EXCEPT
            !.cache = EmptyCache,
            !.sessions = [sessions EXCEPT ![sid].status = "declined"],
            !.notifications = Append(notifications,
                [user_id |-> sessions[sid].student_id, kind |-> "declined",
                 by |-> u])]
    ELSE [Answer("recorded") EXCEPT !.cache = EmptyCache]

\* ----------------------------------------------------------- leave_review
\* POST /reviews/<session_id> by logged-in user u; valid: the review form
\* validates.
leave_review(u, sid, valid) ==
    IF ~SessionExists(sid) THEN Answer("404")
    ELSE IF sessions[sid].student_id # u THEN Answer("403")
    ELSE IF valid
    THEN [Answer("submitted") EXCEPT
            !.cache = EmptyCache,
            !.reviews = Append(reviews,
                [session_id |-> sid, student_id |-> u,
                 mentor_id |-> sessions[sid].mentor_id]),
            !.sessions = [sessions EXCEPT ![sid].status = "completed"]]
    ELSE Answer("redirect")

\* ------------------------------------------------------- initiate_payment
PaymentForm_valid_anyAmount(amount, method) ==
    method \in {"card", "netbanking", "upi"}

\* PaymentForm.validate_on_submit().
PaymentForm_valid(amount, method) ==
    /\ amount >= MinAmount
    /\ method \in {"card", "netbanking", "upi"}

payment_allowed_any(sid) == TRUE

\* The state test of initiate_payment.
payment_allowed(sid) == sessions[sid].status = "accepted"

PaymentService_create_order_rowFirst(session_id, student_id, mentor_id, amount, gateway_ok) ==
    [success |-> gateway_ok,
     order_id |-> IF gateway_ok THEN Len(orders) + 1 ELSE None,
     orders |-> IF gateway_ok
                THEN Append(orders,
                        [id |-> Len(orders) + 1, amount |-> amount * 100,
                         receipt |-> session_id])
                ELSE orders,
     rows |-> Append(payments,
              [session_id |-> session_id, student_id |-> student_id,
               mentor_id |-> mentor_id, amount |-> amount,
               razorpay_order_id |-> IF gateway_ok THEN Len(orders) + 1 ELSE None,
               razorpay_payment_id |-> None, status |-> "pending",
               payment_method |-> None])]

PaymentService_create_order_majorUnits(session_id, student_id, mentor_id, amount, gateway_ok) ==
    IF ~gateway_ok
    THEN [success |-> FALSE, order_id |-> None, orders |-> orders, rows |-> payments]
    ELSE [success |-> TRUE, order_id |-> Len(orders) + 1,
          orders |-> Append(orders,
              [id |-> Len(orders) + 1, amount |-> amount,
               receipt |-> session_id]),
          rows |-> Append(payments,
              [session_id |-> session_id, student_id |-> student_id,
               mentor_id |-> mentor_id, amount |-> amount,
               razorpay_order_id |-> Len(orders) + 1,
               razorpay_payment_id |-> None, status |-> "pending",
               payment_method |-> None])]

\* PaymentService.create_order; gateway_ok: client.order.create returns
\* instead of raising.  Its result, the gateway's orders and the Payment rows.
PaymentService_create_order(session_id, student_id, mentor_id, amount, gateway_ok) ==
    IF ~gateway_ok
    THEN [success |-> FALSE, order_id |-> None, orders |-> orders, rows |-> payments]
    ELSE [success |-> TRUE, order_id |-> Len(orders) + 1,
          orders |-> Append(orders,
              [id |-> Len(orders) + 1, amount |-> amount * 100,
               receipt |-> session_id]),
          rows |-> Append(payments,
              [session_id |-> session_id, student_id |-> student_id,
               mentor_id |-> mentor_id, amount |-> amount,
               razorpay_order_id |-> Len(orders) + 1,
               razorpay_payment_id |-> None, status |-> "pending",
               payment_method |-> None])]

initiate_payment_anyUser(u, sid, amount, method, gateway_ok) ==
    IF ~SessionExists(sid) THEN Answer("404")
    ELSE IF ~payment_allowed(sid) THEN Answer("not_accepted")
    ELSE IF ~PaymentForm_valid(amount, method) THEN Answer("page")
    ELSE LET result == PaymentService_create_order(
                          sid, u, sessions[sid].mentor_id, amount, gateway_ok)
             k == first({i \in 1 .. Len(result.rows) :
                           result.rows[i].razorpay_order_id = result.order_id})
         IN  IF ~result.success THEN Answer("gateway_error")
             ELSE [Answer("500") EXCEPT
                     !.orders = result.orders,
                     !.payments = IF k = None THEN result.rows
                                  ELSE [result.rows EXCEPT
                                          ![k].payment_method = method]]

\* POST /sessions/<session_id>/payment by logged-in user u.
initiate_payment(u, sid, amount, method, gateway_ok) ==
    IF ~SessionExists(sid) THEN Answer("404")
    ELSE IF sessions[sid].student_id # u THEN Answer("403")
    ELSE IF ~payment_allowed(sid) THEN Answer("not_accepted")
    ELSE IF ~PaymentForm_valid(amount, method) THEN Answer("page")
    ELSE LET result == PaymentService_create_order(
                          sid, u, sessions[sid].mentor_id, amount, gateway_ok)
             k == first({i \in 1 .. Len(result.rows) :
                           result.rows[i].razorpay_order_id = result.order_id})
         IN  IF ~result.success THEN Answer("gateway_error")
             \* the checkout page is rendered from current_user.app, an
             \* attribute User does not have: the request ends in an
             \* unhandled AttributeError after both commits
             ELSE [Answer("500") EXCEPT
                     !.orders = result.orders,
                     !.payments = IF k = None THEN result.rows
                                  ELSE [result.rows EXCEPT
                                          ![k].payment_method = method]]

\* --------------------------------------------------------- verify_payment
\* The signature the gateway computes for an order id and a payment id with
\* the shared secret (HMAC): one value per pair.
Sign(order_id, payment_id) == <<order_id, payment_id>>

\* A signature that is the signature of no pair.
Tampered == <<None, None>>

Signatures == {Sign(o, p) : o \in OrderIds, p \in GatewayPaymentIds} \cup {Tampered}

verify_payment_signature_skipped(order_id, payment_id, signature) == TRUE

\* client.utility.verify_payment_signature: raises unless the signature is
\* the one of the pair.
verify_payment_signature(order_id, payment_id, signature) ==
    signature = Sign(order_id, payment_id)

PaymentService_verify_payment_allRows(order_id, payment_id, signature) ==
    IF ~verify_payment_signature(order_id, payment_id, signature)
    THEN [success |-> FALSE, error |-> "signature", payment_id |-> None,
          rows |-> payments]
    ELSE LET k == first({i \in 1 .. Len(payments) :
                              payments[i].razorpay_order_id = order_id})
         IN  IF k = None
             THEN [success |-> FALSE, error |-> "not_found", payment_id |-> None,
                   rows |-> payments]
             ELSE [success |-> TRUE, error |-> "", payment_id |-> k,
                   rows |-> [j \in 1 .. Len(payments) |->
                               [payments[j] EXCEPT
                                  !.status = "completed",
                                  !.razorpay_payment_id =
                                     IF j = k THEN payment_id ELSE @]]]

PaymentService_verify_payment_missingRow(order_id, payment_id, signature) ==
    IF ~verify_payment_signature(order_id, payment_id, signature)
    THEN [success |-> FALSE, error |-> "signature", payment_id |-> None,
          rows |-> payments]
    ELSE LET k == first({i \in 1 .. Len(payments) :
                              payments[i].razorpay_order_id = order_id})
         IN  IF k = None
             THEN [success |-> TRUE, error |-> "", payment_id |-> None,
                   rows |-> payments]
             ELSE [success |-> TRUE, error |-> "", payment_id |-> k,
                   rows |-> [payments EXCEPT
                               ![k].razorpay_payment_id = payment_id,
                               ![k].status = "completed"]]

PaymentService_verify_payment_unstamped(order_id, payment_id, signature) ==
    IF ~verify_payment_signature(order_id, payment_id, signature)
    THEN [success |-> FALSE, error |-> "signature", payment_id |-> None,
          rows |-> payments]
    ELSE LET k == first({i \in 1 .. Len(payments) :
                              payments[i].razorpay_order_id = order_id})
         IN  IF k = None
             THEN [success |-> FALSE, error |-> "not_found", payment_id |-> None,
                   rows |-> payments]
             ELSE [success |-> TRUE, error |-> "", payment_id |-> k,
                   rows |-> [payments EXCEPT ![k].status = "completed"]]

\* PaymentService.verify_payment: its result and the Payment rows it commits.
PaymentService_verify_payment(order_id, payment_id, signature) ==
    IF ~verify_payment_signature(order_id, payment_id, signature)
    THEN [success |-> FALSE, error |-> "signature", payment_id |-> None,
          rows |-> payments]
    ELSE LET k == first({i \in 1 .. Len(payments) :
                              payments[i].razorpay_order_id = order_id})
         IN  IF k = None
             THEN [success |-> FALSE, error |-> "not_found", payment_id |-> None,
                   rows |-> payments]
             ELSE IF \E j \in 1 .. Len(payments) :
                        j # k /\ payments[j].razorpay_payment_id = payment_id
             \* razorpay_payment_id is unique: the commit raises
             THEN [success |-> FALSE, error |-> "integrity", payment_id |-> None,
                   rows |-> payments]
             ELSE [success |-> TRUE, error |-> "", payment_id |-> k,
                   rows |-> [payments EXCEPT
                               ![k].razorpay_payment_id = payment_id,
                               ![k].status = "completed"]]

\* EmailService._send_email: the row it logs; mail_ok: mail.send returns
\* instead of raising.
EmailService_send_email(recipient, notification_type, mail_ok) ==
    [recipient |-> recipient, notification_type |-> notification_type,
     status |-> IF mail_ok THEN "sent" ELSE "failed"]

verify_payment_mailFirst(order_id, payment_id, signature, session_id, mail_ok) ==
    LET result == PaymentService_verify_payment(order_id, payment_id, signature)
    IN  IF ~result.success THEN Answer(result.error)
        ELSE IF SessionExists(session_id) /\ ~mail_ok THEN Answer("mail_error")
        ELSE [Answer("confirmed") EXCEPT
                !.payments = result.rows,
                !.emails =
                   IF SessionExists(session_id)
                   THEN Append(emails,
                          EmailService_send_email(
                             payments[result.payment_id].student_id,
                             "payment", mail_ok))
                   ELSE emails]

\* POST /payment/verify by a logged-in user; session_id is the form's
\* session_id field.
verify_payment(order_id, payment_id, signature, session_id, mail_ok) ==
    LET result == PaymentService_verify_payment(order_id, payment_id, signature)
    IN  IF ~result.success THEN Answer(result.error)
        ELSE [Answer("confirmed") EXCEPT
                !.payments = result.rows,
                !.emails =
                   IF SessionExists(session_id)
                   THEN Append(emails,
                          EmailService_send_email(
                             payments[result.payment_id].student_id,
                             "payment", mail_ok))
                   ELSE emails]

\* --------------------------------------------------------- refund_payment
PaymentService_refund_payment_unverified(payment_id, gateway_ok) ==
    IF payment_id \notin 1 .. Len(payments)
    THEN [success |-> FALSE, error |-> "not_found", refunds |-> refunds,
          rows |-> payments]
    ELSE IF ~gateway_ok
    THEN [success |-> FALSE, error |-> "gateway_error", refunds |-> refunds,
          rows |-> payments]
    ELSE [success |-> TRUE, error |-> "",
          refunds |-> Append(refunds,
              [payment_id |-> payments[payment_id].razorpay_payment_id]),
          rows |-> [payments EXCEPT ![payment_id].status = "refunded"]]

PaymentService_refund_payment_statusFirst(payment_id, gateway_ok) ==
    IF payment_id \notin 1 .. Len(payments)
    THEN [success |-> FALSE, error |-> "not_found", refunds |-> refunds,
          rows |-> payments]
    ELSE IF payments[payment_id].razorpay_payment_id = None
    THEN [success |-> FALSE, error |-> "not_found", refunds |-> refunds,
          rows |-> payments]
    ELSE IF ~gateway_ok
    THEN [success |-> FALSE, error |-> "gateway_error", refunds |-> refunds,
          rows |-> [payments EXCEPT ![payment_id].status = "refunded"]]
    ELSE [success |-> TRUE, error |-> "",
          refunds |-> Append(refunds,
              [payment_id |-> payments[payment_id].razorpay_payment_id]),
          rows |-> [payments EXCEPT ![payment_id].status = "refunded"]]

\* PaymentService.refund_payment(payment_id); gateway_ok: client.payment.refund
\* returns instead of raising.  Its result, the gateway's refunds and the
\* Payment rows.
PaymentService_refund_payment(payment_id, gateway_ok) ==
    IF payment_id \notin 1 .. Len(payments)
    THEN [success |-> FALSE, error |-> "not_found", refunds |-> refunds,
          rows |-> payments]
    ELSE IF payments[payment_id].razorpay_payment_id = None
    THEN [success |-> FALSE, error |-> "not_found", refunds |-> refunds,
          rows |-> payments]
    ELSE IF ~gateway_ok
    THEN [success |-> FALSE, error |-> "gateway_error", refunds |-> refunds,
          rows |-> payments]
    ELSE [success |-> TRUE, error |-> "",
          refunds |-> Append(refunds,
              [payment_id |-> payments[payment_id].razorpay_payment_id]),
          rows |-> [payments EXCEPT ![payment_id].status = "refunded"]]

refund_payment_anyUser(u, sid, gateway_ok) ==
    IF ~SessionExists(sid) THEN Answer("404")
    ELSE LET k == first({i \in 1 .. Len(payments) : payments[i].session_id = sid})
             result == PaymentService_refund_payment(k, gateway_ok)
         IN  IF k = None THEN Answer("404")
             ELSE IF ~result.success THEN Answer(result.error)
             ELSE [Answer("refunded") EXCEPT
                     !.refunds = result.refunds,
                     !.payments = result.rows]

\* POST /sessions/<session_id>/payment/refund by logged-in user u.
refund_payment(u, sid, gateway_ok) ==
    IF ~SessionExists(sid) THEN Answer("404")
    ELSE LET k == first({i \in 1 .. Len(payments) : payments[i].session_id = sid})
             result == PaymentService_refund_payment(k, gateway_ok)
         IN  IF k = None THEN Answer("404")
             ELSE IF u \notin {sessions[sid].student_id, sessions[sid].mentor_id}
                     /\ ~is_admin(u)
             THEN Answer("403")
             ELSE IF ~result.success THEN Answer(result.error)
             ELSE [Answer("refunded") EXCEPT
                     !.refunds = result.refunds,
                     !.payments = result.rows]

\* ------------------------------------------------------------- deactivate
\* GET /admin/users/<user_id>/deactivate by logged-in user u.
deactivate(u, user_id) ==
    IF ~is_admin(u) THEN Answer("login")
    ELSE [Answer("deactivated") EXCEPT
            !.role = [role EXCEPT ![user_id] = "deactivated"]]

\* --------------------------------------------------------- login_required
\* The endpoints behind flask_login's login_required.
Protected == {"respond_request", "leave_review", "initiate_payment",
              "verify_payment", "refund_payment", "deactivate"}

\* A visitor who is not logged in is sent to the login page.
login_required(op) == Answer("login")

\* ---------------------------------------------------------------- requests
\* The tables of outcome r stay within the bounds of the model.
WithinBounds(r) ==
    /\ Len(r.sessions) <= MaxSessions
    /\ Len(r.reviews) <= MaxReviews
    /\ Len(r.payments) <= MaxPayments
    /\ Len(r.notifications) <= MaxNotifications
    /\ Len(r.emails) <= MaxEmails
    /\ Len(r.refunds) <= MaxRefunds

\* One request to endpoint op, whose handler ends with outcome r.
Handle(op, r) ==
    /\ WithinBounds(r)
    /\ last' = [op |-> op, resp |-> r.resp]
    /\ role' = r.role
    /\ sessions' = r.sessions
    /\ reviews' = r.reviews
    /\ payments' = r.payments
    /\ notifications' = r.notifications
    /\ emails' = r.emails
    /\ orders' = r.orders
    /\ refunds' = r.refunds
    /\ cache' = r.cache
    /\ UNCHANGED <<calendar_events, sms, inflight>>

\* Booking, the mentor's response and the review.
Lifecycle ==
    \/ \E u \in Actors, user_id \in Users, when \in Times \cup {None} :
          Handle("mentor_detail", mentor_detail(u, user_id, when))
    \/ \E u \in Users, sid \in SessionIds, action \in RespondActions :
          Handle("respond_request", respond_request(u, sid, action))
    \/ \E u \in Users, sid \in SessionIds, valid \in BOOLEAN :
          Handle("leave_review", leave_review(u, sid, valid))

\* Payment initiation, verification callback and refund.
Settlement ==
    \/ \E u \in Users, sid \in SessionIds, form \in PaymentForms,
          gateway_ok \in BOOLEAN :
          Handle("initiate_payment",
                 initiate_payment(u, sid, form[1], form[2], gateway_ok))
    \/ \E order_id \in OrderIds, payment_id \in GatewayPaymentIds,
          signature \in Signatures, session_id \in SessionIds \cup {None},
          mail_ok \in BOOLEAN :
          Handle("verify_payment",
                 verify_payment(order_id, payment_id, signature, session_id, mail_ok))
    \/ \E u \in Users, sid \in SessionIds, gateway_ok \in BOOLEAN :
          Handle("refund_payment", refund_payment(u, sid, gateway_ok))

\* The booking and payment workflow, with the roles as registered.
Next ==
    \/ \E op \in Protected : Handle(op, login_required(op))
    \/ Lifecycle
    \/ Settlement

Spec == Init /\ [][Next]_vars

\* The session lifecycle under an administrator who deactivates users.
NextAdmin ==
    \/ \E op \in Protected : Handle(op, login_required(op))
    \/ Lifecycle
    \/ \E u \in Users, user_id \in Users :
          Handle("deactivate", deactivate(u, user_id))

SpecAdmin == Init /\ [][NextAdmin]_vars


\* ---------------------------------------------------------- add_to_calendar
\* timedelta(hours=1), in the unit of scheduled_at.
EventHours == 1

\* The uid of the event of a session for a user:
\* session_<session_id>_<user_id>@mentorconnect.com.
ical_uid(session_id, user_id) == <<session_id, user_id>>

CalendarService_create_calendar_event_noDuration(session_id, user_id) ==
    IF \E e \in 1 .. Len(calendar_events) :
          \/ calendar_events[e].session_id = session_id
          \/ calendar_events[e].ical_uid = ical_uid(session_id, user_id)
    THEN [success |-> FALSE, error |-> "integrity", rows |-> calendar_events]
    ELSE [success |-> TRUE, error |-> "",
          rows |-> Append(calendar_events,
              [session_id |-> session_id, user_id |-> user_id,
               start_time |-> sessions[session_id].scheduled_at,
               end_time |-> sessions[session_id].scheduled_at,
               ical_uid |-> ical_uid(session_id, user_id),
               notification_sent |-> FALSE])]

CalendarService_create_calendar_event_unconstrained(session_id, user_id) ==
    [success |-> TRUE, error |-> "",
     rows |-> Append(calendar_events,
         [session_id |-> session_id, user_id |-> user_id,
          start_time |-> sessions[session_id].scheduled_at,
          end_time |-> sessions[session_id].scheduled_at + EventHours,
          ical_uid |-> ical_uid(session_id, user_id),
          notification_sent |-> FALSE])]

\* CalendarService.create_calendar_event: its result and the CalendarEvent
\* rows.  CalendarEvent.session_id and CalendarEvent.ical_uid are unique: the
\* commit of a row repeating either raises, and the service returns a failure.
CalendarService_create_calendar_event(session_id, user_id) ==
    IF \E e \in 1 .. Len(calendar_events) :
          \/ calendar_events[e].session_id = session_id
          \/ calendar_events[e].ical_uid = ical_uid(session_id, user_id)
    THEN [success |-> FALSE, error |-> "integrity", rows |-> calendar_events]
    ELSE [success |-> TRUE, error |-> "",
          rows |-> Append(calendar_events,
              [session_id |-> session_id, user_id |-> user_id,
               start_time |-> sessions[session_id].scheduled_at,
               end_time |-> sessions[session_id].scheduled_at + EventHours,
               ical_uid |-> ical_uid(session_id, user_id),
               notification_sent |-> FALSE])]

\* POST /calendar/<session_id>/add by logged-in user u: the response and the
\* CalendarEvent rows.
add_to_calendar(u, sid) ==
    IF ~SessionExists(sid)
    THEN [resp |-> "404", calendar_events |-> calendar_events]
    ELSE IF u \notin {sessions[sid].student_id, sessions[sid].mentor_id}
    THEN [resp |-> "403", calendar_events |-> calendar_events]
    ELSE LET result == CalendarService_create_calendar_event(sid, u)
         IN  IF result.success
             THEN [resp |-> "created", calendar_events |-> result.rows]
             ELSE [resp |-> result.error, calendar_events |-> calendar_events]

\* One request to a calendar endpoint, whose handler ends with outcome r.
HandleCalendar(op, r) ==
    /\ Len(r.calendar_events) <= MaxCalendarEvents
    /\ last' = [op |-> op, resp |-> r.resp]
    /\ calendar_events' = r.calendar_events
    /\ UNCHANGED <<role, sessions, reviews, payments, notifications, emails,
                   orders, refunds, sms, inflight, cache>>

\* The session lifecycle with the participants adding sessions to their
\* calendars.
NextCalendar ==
    \/ \E op \in Protected : Handle(op, login_required(op))
    \/ Lifecycle
    \/ HandleCalendar("add_to_calendar",
          [resp |-> login_required("add_to_calendar").resp,
           calendar_events |-> calendar_events])
    \/ \E u \in Users, sid \in SessionIds :
          HandleCalendar("add_to_calendar", add_to_calendar(u, sid))

SpecCalendar == Init /\ [][NextCalendar]_vars

\* ------------------------------------- export_calendar, send_calendar_reminder
\* Times in hours.  The times a session is booked for and the instants at
\* which a reminder is requested: before both sessions, one day before the
\* later one, and at the hour of the later one.
SessionTimes == {24, 30}
Clocks == {0, 6, 30}

\* timedelta(days=1), in hours.
DayHours == 24

\* The sessions a calendar query selects for a user: those the user booked
\* when User.is_student() holds, else those the user mentors.
sessions_of(user_id) ==
    IF is_student(user_id)
    THEN {s \in 1 .. Len(sessions) : sessions[s].student_id = user_id}
    ELSE {s \in 1 .. Len(sessions) : sessions[s].mentor_id = user_id}

\* The events get_calendar_export adds for the selected sessions among the
\* first n sessions, in the order of the query.
RECURSIVE export_events(_, _)
export_events(user_id, n) ==
    IF n = 0 THEN << >>
    ELSE IF n \in sessions_of(user_id)
    THEN Append(export_events(user_id, n - 1),
            [uid |-> ical_uid(n, user_id),
             dtstart |-> sessions[n].scheduled_at,
             dtend |-> sessions[n].scheduled_at + EventHours,
             status |-> sessions[n].status])
    ELSE export_events(user_id, n - 1)

\* CalendarService.get_calendar_export: its result and the events of the
\* calendar document.
CalendarService_get_calendar_export(user_id) ==
    IF user_id \notin Users
    THEN [success |-> FALSE, events |-> << >>]
    ELSE [success |-> TRUE, events |-> export_events(user_id, Len(sessions))]

\* POST /calendar/export by logged-in user u; valid: the export form
\* validates.  The response and the events of the file sent.
export_calendar(u, valid) ==
    LET result == CalendarService_get_calendar_export(u)
    IN  IF valid /\ result.success
        THEN [resp |-> "file", events |-> result.events,
              calendar_events |-> calendar_events]
        ELSE [resp |-> "page", events |-> << >>,
              calendar_events |-> calendar_events]

CalendarService_send_calendar_reminder_resend(user_id, now, days_before) ==
    LET threshold == now + days_before * DayHours
        upcoming == {s \in sessions_of(user_id) :
                        /\ now <= sessions[s].scheduled_at
                        /\ sessions[s].scheduled_at <= threshold
                        /\ sessions[s].status \in {"accepted", "completed"}}
        found == {first({e \in 1 .. Len(calendar_events) :
                            /\ calendar_events[e].session_id = s
                            /\ calendar_events[e].user_id = user_id}) :
                     s \in upcoming} \ {None}
    IN  IF user_id \notin Users
        THEN [success |-> FALSE, reminders_sent |-> 0, rows |-> calendar_events]
        ELSE [success |-> TRUE, reminders_sent |-> Cardinality(found),
              rows |-> [e \in 1 .. Len(calendar_events) |->
                          IF e \in found
                          THEN [calendar_events[e] EXCEPT
                                  !.notification_sent = ~@]
                          ELSE calendar_events[e]]]

\* CalendarService.send_calendar_reminder at instant now: its result and the
\* CalendarEvent rows.
CalendarService_send_calendar_reminder(user_id, now, days_before) ==
    LET threshold == now + days_before * DayHours
        upcoming == {s \in sessions_of(user_id) :
                        /\ now <= sessions[s].scheduled_at
                        /\ sessions[s].scheduled_at <= threshold
                        /\ sessions[s].status \in {"accepted", "completed"}}
        found == {first({e \in 1 .. Len(calendar_events) :
                            /\ calendar_events[e].session_id = s
                            /\ calendar_events[e].user_id = user_id}) :
                     s \in upcoming}
        flipped == {e \in found \ {None} : ~calendar_events[e].notification_sent}
    IN  IF user_id \notin Users
        THEN [success |-> FALSE, reminders_sent |-> 0, rows |-> calendar_events]
        ELSE [success |-> TRUE, reminders_sent |-> Cardinality(flipped),
              rows |-> [e \in 1 .. Len(calendar_events) |->
                          IF e \in flipped
                          THEN [calendar_events[e] EXCEPT !.notification_sent = TRUE]
                          ELSE calendar_events[e]]]

\* GET /sessions/<session_id>/calendar-reminder by logged-in user u at
\* instant now: the response, the count flashed and the CalendarEvent rows.
send_calendar_reminder(u, sid, now) ==
    IF ~SessionExists(sid)
    THEN [resp |-> "404", reminders_sent |-> 0, calendar_events |-> calendar_events]
    ELSE IF u \notin {sessions[sid].student_id, sessions[sid].mentor_id}
    THEN [resp |-> "403", reminders_sent |-> 0, calendar_events |-> calendar_events]
    ELSE LET result == CalendarService_send_calendar_reminder(u, now, 1)
         IN  [resp |-> "redirect", reminders_sent |-> result.reminders_sent,
              calendar_events |-> result.rows]

\* The calendar endpoints behind login_required.
CalendarEndpoints == {"add_to_calendar", "send_calendar_reminder",
                      "export_calendar"}

\* The profiles a booking is posted to (a student's, which is no mentor
\* profile, and a mentor's) and the account the administrator deactivates.
BookedProfiles == {1, 2}
DeactivatedAccounts == {1}

\* Sessions booked for different times, answered and reviewed, while an
\* administrator deactivates the student's account.
Agenda ==
    \/ \E u \in Users, user_id \in BookedProfiles, when \in SessionTimes :
          Handle("mentor_detail", mentor_detail(u, user_id, when))
    \/ \E u \in Users, sid \in SessionIds, action \in RespondActions :
          Handle("respond_request", respond_request(u, sid, action))
    \/ \E u \in Users, sid \in SessionIds, valid \in BOOLEAN :
          Handle("leave_review", leave_review(u, sid, valid))
    \/ \E u \in Users, user_id \in DeactivatedAccounts :
          Handle("deactivate", deactivate(u, user_id))

\* The participants add their sessions to their calendars, ask for reminders
\* and export their calendars.
NextAgenda ==
    \/ Agenda
    \/ \E op \in CalendarEndpoints :
          HandleCalendar(op, [resp |-> login_required(op).resp,
                              calendar_events |-> calendar_events])
    \/ \E u \in Users, sid \in SessionIds :
          HandleCalendar("add_to_calendar", add_to_calendar(u, sid))
    \/ \E u \in Users, sid \in SessionIds, now \in Clocks :
          HandleCalendar("send_calendar_reminder",
                         send_calendar_reminder(u, sid, now))
    \/ \E u \in Users, valid \in BOOLEAN :
          HandleCalendar("export_calendar", export_calendar(u, valid))

SpecAgenda == Init /\ [][NextAgenda]_vars

\* ------------------------------------------------ mentors_list, my_sessions
\* cache.cached around a view function: the page stored under the key is
\* served without running the view; else the view runs and its page is
\* stored.  The page served and the response cache.
cached(key, page) ==
    IF \E c \in cache : c.key = key
    THEN [page |-> (CHOOSE c \in cache : c.key = key).page, cache |-> cache]
    ELSE [page |-> page, cache |-> cache \cup {[key |-> key, page |-> page]}]

\* GET /mentors without a search: the users whose role is mentor.
mentors_list ==
    cached("/mentors", {m \in Users : role[m] = "mentor"})

\* GET /sessions by logged-in user u: the sessions u booked (a student) or
\* mentors (a mentor), each with its status.  The cache key is the path.
my_sessions(u) ==
    cached("/sessions",
           IF is_student(u)
           THEN {<<s, sessions[s].status>> :
                    s \in {i \in 1 .. Len(sessions) : sessions[i].student_id = u}}
           ELSE IF is_mentor(u)
           THEN {<<s, sessions[s].status>> :
                    s \in {i \in 1 .. Len(sessions) : sessions[i].mentor_id = u}}
           ELSE {})

\* One request to a cached view, answered with the page of outcome r.
View(op, r) ==
    /\ last' = [op |-> op, resp |-> "page", page |-> r.page]
    /\ cache' = r.cache
    /\ UNCHANGED <<role, sessions, reviews, payments, notifications, emails,
                   orders, refunds, calendar_events, sms, inflight>>

\* An entry of the response cache reaches its timeout and is dropped.
timeout ==
    /\ \E c \in cache : cache' = cache \ {c}
    /\ UNCHANGED <<role, sessions, reviews, payments, notifications, emails,
                   orders, refunds, last, calendar_events, sms, inflight>>

\* The accounts the administrator deactivates while pages are cached: the
\* student's and a mentor's.
ListedAccounts == {1, 2}

\* The session lifecycle and the administrator's deactivations, with the
\* cached pages being requested in between.
NextCache ==
    \/ \E op \in Protected \cup {"my_sessions"} : Handle(op, login_required(op))
    \/ Lifecycle
    \/ \E u \in Users, user_id \in ListedAccounts :
          Handle("deactivate", deactivate(u, user_id))
    \/ View("mentors_list", mentors_list)
    \/ \E u \in Users : View("my_sessions", my_sessions(u))
    \/ timeout

SpecCache == Init /\ [][NextCache]_vars

\* -------------------------------------------------- _send_email, _send_sms
\* Addresses a dispatcher is called with (the email address or the phone
\* number of a user), and the notification types of the callers.
Recipients == {1, 2}
NotificationTypes == {"payment", "session_reminder"}

\* EmailService._send_email as its caller sees it: whether an exception
\* leaves the call, the result returned, and the EmailNotification rows.
EmailService_send_email_call(recipient, notification_type, mail_ok) ==
    [raised |-> FALSE,
     result |-> [success |-> mail_ok],
     rows |-> Append(emails,
                 EmailService_send_email(recipient, notification_type, mail_ok))]

SMSService_send_sms_unlogged(phone_number, notification_type, sms_ok) ==
    IF sms_ok
    THEN [raised |-> FALSE, result |-> [success |-> TRUE],
          rows |-> Append(sms,
              [phone_number |-> phone_number,
               notification_type |-> notification_type, status |-> "sent"])]
    ELSE [raised |-> TRUE, result |-> [success |-> FALSE], rows |-> sms]

\* SMSService._send_sms as its caller sees it; sms_ok: client.messages.create
\* returns instead of raising.
SMSService_send_sms(phone_number, notification_type, sms_ok) ==
    IF sms_ok
    THEN [raised |-> FALSE, result |-> [success |-> TRUE],
          rows |-> Append(sms,
              [phone_number |-> phone_number,
               notification_type |-> notification_type, status |-> "sent"])]
    ELSE [raised |-> FALSE, result |-> [success |-> FALSE],
          rows |-> Append(sms,
              [phone_number |-> phone_number,
               notification_type |-> notification_type, status |-> "failed"])]

\* One call of a dispatcher ending with outcome r; rows are the rows of the
\* dispatcher's own log table.
Dispatch(op, r) ==
    /\ last' = [op |-> op,
                resp |-> IF r.raised THEN "raised"
                         ELSE IF r.result.success THEN "sent" ELSE "failed"]
    /\ IF op = "_send_email"
       THEN /\ Len(r.rows) <= MaxEmails
            /\ emails' = r.rows
            /\ sms' = sms
       ELSE /\ Len(r.rows) <= MaxSms
            /\ sms' = r.rows
            /\ emails' = emails
    /\ UNCHANGED <<role, sessions, reviews, payments, notifications, orders,
                   refunds, calendar_events, inflight, cache>>

\* The dispatchers called in any order with any transport outcome.
NextNotify ==
    \/ \E recipient \in Recipients, notification_type \in NotificationTypes,
          mail_ok \in BOOLEAN :
          Dispatch("_send_email",
                   EmailService_send_email_call(recipient, notification_type, mail_ok))
    \/ \E phone_number \in Recipients, notification_type \in NotificationTypes,
          sms_ok \in BOOLEAN :
          Dispatch("_send_sms",
                   SMSService_send_sms(phone_number, notification_type, sms_ok))

SpecNotify == Init /\ [][NextNotify]_vars

\* ------------------------------------------------ concurrent status changes
\* respond_request up to its first write, on worker w: the Session is read
\* (get_or_404), the user is authorized, and the new status is set on the
\* loaded object; nothing is written to the database before the commit.
load_respond_request(w, u, sid, action) ==
    /\ inflight[w] = Idle
    /\ SessionExists(sid)
    /\ ~respond_forbidden(u, sid)
    /\ action \in {"accept", "decline"}
    /\ inflight' = [inflight EXCEPT ![w] =
          [op |-> "respond_request", u |-> u, sid |-> sid,
           read |-> sessions[sid].status,
           status |-> IF action = "accept" THEN "accepted" ELSE "declined"]]
    /\ UNCHANGED <<role, sessions, reviews, payments, notifications, emails,
                   orders, refunds, last, calendar_events, sms, cache>>

\* leave_review with a valid form up to its first write, on worker w.
load_leave_review(w, u, sid) ==
    /\ inflight[w] = Idle
    /\ SessionExists(sid)
    /\ sessions[sid].student_id = u
    /\ inflight' = [inflight EXCEPT ![w] =
          [op |-> "leave_review", u |-> u, sid |-> sid,
           read |-> sessions[sid].status, status |-> "completed"]]
    /\ UNCHANGED <<role, sessions, reviews, payments, notifications, emails,
                   orders, refunds, last, calendar_events, sms, cache>>

\* db.session.commit() of the request on worker w: the rows added are
\* inserted, and the status is written with an UPDATE ... WHERE id = sid if
\* it differs from the status the request read (an unmodified attribute is
\* not flushed).  Session has no version column: the UPDATE never fails on a
\* row another request has changed since the read.  The handler then clears
\* the response cache.
commit(w) ==
    LET q == inflight[w]
    IN  /\ q # Idle
        /\ sessions' = IF q.status = q.read THEN sessions
                       ELSE [sessions EXCEPT ![q.sid].status = q.status]
        /\ IF q.op = "respond_request"
           THEN /\ Len(notifications) < MaxNotifications
                /\ notifications' = Append(notifications,
                      [user_id |-> sessions[q.sid].student_id,
                       kind |-> q.status, by |-> q.u])
                /\ reviews' = reviews
                /\ last' = [op |-> q.op, resp |-> "recorded"]
           ELSE /\ Len(reviews) < MaxReviews
                /\ reviews' = Append(reviews,
                      [session_id |-> q.sid, student_id |-> q.u,
                       mentor_id |-> sessions[q.sid].mentor_id])
                /\ notifications' = notifications
                /\ last' = [op |-> q.op, resp |-> "submitted"]
        /\ inflight' = [inflight EXCEPT ![w] = Idle]
        /\ cache' = EmptyCache
        /\ UNCHANGED <<role, payments, emails, orders, refunds,
                       calendar_events, sms>>

\* Bookings, and responses and reviews whose reads and commits interleave.
NextRace ==
    \/ \E u \in Users, user_id \in Users, when \in Times :
          Handle("mentor_detail", mentor_detail(u, user_id, when))
    \/ \E w \in Workers, u \in Users, sid \in SessionIds,
          action \in RespondActions :
          load_respond_request(w, u, sid, action)
    \/ \E w \in Workers, u \in Users, sid \in SessionIds :
          load_leave_review(w, u, sid)
    \/ \E w \in Workers : commit(w)

SpecRace == Init /\ [][NextRace]_vars

\* ------------------------------------------------------------------ claims

\* C1: respond_request changes a session's status only when the logged-in
\* user is the session's mentor: for any other user the request is answered
\* 403 and nothing is written, and whenever the handler does change the
\* sessions table the user is the session's mentor and holds the mentor role.
\* (A visitor who is not logged in never reaches the handler: login_required.)
C1_OnlyMentorResponds ==
    \A u \in Users, sid \in SessionIds, action \in RespondActions :
        SessionExists(sid) =>
            LET r == respond_request(u, sid, action)
            IN  /\ sessions[sid].mentor_id # u => r = Answer("403")
                /\ r.sessions # sessions =>
                      sessions[sid].mentor_id = u /\ role[u] = "mentor"

\* A response was refused with 403 while a session accepted by its mentor
\* is on record.
C1_Witness ==
    /\ last = [op |-> "respond_request", resp |-> "403"]
    /\ \E i \in 1 .. Len(sessions) : sessions[i].status = "accepted"

\* C2: a verification callback whose signature is not the signature of its
\* order id and payment id fails in the service and writes nothing: the
\* service returns failure with the Payment rows as they were, and the
\* request leaves every table unchanged.
C2_TamperedSignatureRejected ==
    \A order_id \in OrderIds, payment_id \in GatewayPaymentIds,
       signature \in Signatures, session_id \in SessionIds \cup {None},
       mail_ok \in BOOLEAN :
        signature # Sign(order_id, payment_id) =>
            LET result == PaymentService_verify_payment(order_id, payment_id, signature)
            IN  /\ ~result.success
                /\ result.rows = payments
                /\ verify_payment(order_id, payment_id, signature, session_id, mail_ok)
                      = Answer("signature")

\* A callback was refused for its signature while a Payment is pending, and
\* the Payment is still pending with no gateway payment id.
C2_Witness ==
    /\ last = [op |-> "verify_payment", resp |-> "signature"]
    /\ \E k \in 1 .. Len(payments) :
          /\ payments[k].status = "pending"
          /\ payments[k].razorpay_payment_id = None

\* C3: a verification callback repeating the valid order id, payment id and
\* signature of an earlier successful callback leaves the status of the
\* Payment as it was just before the repeat.
C3_RepeatedVerifyKeepsStatus ==
    [][\A order_id \in OrderIds, payment_id \in GatewayPaymentIds,
          session_id \in SessionIds \cup {None}, mail_ok \in BOOLEAN :
          LET k == first({i \in 1 .. Len(payments) :
                              payments[i].razorpay_order_id = order_id})
          IN  (/\ k # None
               /\ payments[k].razorpay_payment_id = payment_id
               /\ Handle("verify_payment",
                         verify_payment(order_id, payment_id,
                                        Sign(order_id, payment_id),
                                        session_id, mail_ok)))
              => payments'[k].status = payments[k].status]_vars

\* C4: declined is terminal: a session whose status is declined keeps it
\* through every request.
C4_DeclinedIsTerminal ==
    [][\A i \in 1 .. Len(sessions) :
          sessions[i].status = "declined" => sessions'[i].status = "declined"]_vars

\* C5: completed is terminal: a session whose status is completed keeps it
\* through every request.
C5_CompletedIsTerminal ==
    [][\A i \in 1 .. Len(sessions) :
          sessions[i].status = "completed" => sessions'[i].status = "completed"]_vars

\* C6: respond_request takes effect only from requested: a response to a
\* session that is accepted, declined or completed leaves its status as it is.
C6_RespondOnlyFromRequested ==
    [][last'.op = "respond_request" =>
          \A i \in 1 .. Len(sessions) :
              sessions[i].status # "requested" =>
                  sessions'[i].status = sessions[i].status]_vars

\* C7: a session becomes completed only from accepted and only by
\* leave_review; a review of a requested or declined session leaves its
\* status as it is; a review by anyone but the session's student is
\* answered 403 and writes nothing.
C7_CompletedOnlyFromAccepted ==
    [][/\ \A i \in 1 .. Len(sessions) :
            (sessions[i].status # "completed" /\ sessions'[i].status = "completed")
               => (sessions[i].status = "accepted" /\ last'.op = "leave_review")
       /\ \A u \in Users, sid \in SessionIds, valid \in BOOLEAN :
            (SessionExists(sid) /\ sessions[sid].student_id # u)
               => leave_review(u, sid, valid) = Answer("403")]_vars

\* C8: payment initiation for a session that is not accepted fails: the
\* student is told the session is not accepted (anyone else is answered 403),
\* no order is created at the gateway and no Payment row is added.
C8_NoPaymentUnlessAccepted ==
    \A u \in Users, sid \in SessionIds, form \in PaymentForms,
       gateway_ok \in BOOLEAN :
        (SessionExists(sid) /\ sessions[sid].status # "accepted") =>
            LET r == initiate_payment(u, sid, form[1], form[2], gateway_ok)
            IN  /\ r.resp = IF sessions[sid].student_id = u
                            THEN "not_accepted" ELSE "403"
                /\ r.orders = orders
                /\ r.payments = payments

\* The student was told the session is not accepted, a session that is not
\* accepted is on record, and there is no order and no Payment.
C8_Witness ==
    /\ last = [op |-> "initiate_payment", resp |-> "not_accepted"]
    /\ \E i \in 1 .. Len(sessions) : sessions[i].status # "accepted"
    /\ orders = << >>
    /\ payments = << >>

\* The mentor of session sid has declined it: the student holds a "declined"
\* notification from the mentor, and sid is the only session of the pair.
DeclineOnRecord(sid) ==
    /\ \E n \in 1 .. Len(notifications) :
          /\ notifications[n].kind = "declined"
          /\ notifications[n].by = sessions[sid].mentor_id
          /\ notifications[n].user_id = sessions[sid].student_id
    /\ \A j \in 1 .. Len(sessions) :
          j # sid => <<sessions[j].student_id, sessions[j].mentor_id>>
                        # <<sessions[sid].student_id, sessions[sid].mentor_id>>

\* C9: a mentor's decline sets the status to declined, and from then on
\* every payment initiation for the session fails: it creates no order at
\* the gateway and adds no Payment row.
C9_NoPaymentAfterDecline ==
    [][/\ \A u \in Users, sid \in SessionIds :
            (/\ SessionExists(sid)
             /\ ~respond_forbidden(u, sid)
             /\ Handle("respond_request", respond_request(u, sid, "decline")))
               => sessions'[sid].status = "declined"
       /\ \A u \in Users, sid \in SessionIds, form \in PaymentForms,
             gateway_ok \in BOOLEAN :
            (/\ SessionExists(sid)
             /\ DeclineOnRecord(sid)
             /\ Handle("initiate_payment",
                       initiate_payment(u, sid, form[1], form[2], gateway_ok)))
               => (payments' = payments /\ orders' = orders)]_vars

\* C10: however many verification callbacks a Payment receives, at most one
\* confirmation email is attempted for it: there are never more confirmation
\* email rows than verified Payments.
C10_OneConfirmationPerPayment ==
    Cardinality({e \in 1 .. Len(emails) : emails[e].notification_type = "payment"})
       <= Cardinality({k \in 1 .. Len(payments) :
                          payments[k].razorpay_payment_id # None})

\* C11: a refund of a Payment that does not exist, or that has no gateway
\* payment id, fails in the service with "not found": no refund is issued at
\* the gateway and the Payment rows stay as they are, and the refund request
\* for a session whose Payment was never verified writes nothing.
C11_RefundNeedsVerifiedPayment ==
    /\ \A payment_id \in 0 .. MaxPayments, gateway_ok \in BOOLEAN :
          (\/ payment_id \notin 1 .. Len(payments)
           \/ payments[payment_id].razorpay_payment_id = None)
             => PaymentService_refund_payment(payment_id, gateway_ok)
                   = [success |-> FALSE, error |-> "not_found",
                      refunds |-> refunds, rows |-> payments]
    /\ \A u \in Users, sid \in SessionIds, gateway_ok \in BOOLEAN :
          LET k == first({i \in 1 .. Len(payments) : payments[i].session_id = sid})
              r == refund_payment(u, sid, gateway_ok)
          IN  (/\ SessionExists(sid)
               /\ k # None
               /\ payments[k].razorpay_payment_id = None)
                 => r \in {Answer("403"), Answer("not_found")}

\* A refund was refused as "not found" while the only Payment on record is
\* pending without a gateway payment id, and the gateway issued no refund.
C11_Witness ==
    /\ last = [op |-> "refund_payment", resp |-> "not_found"]
    /\ Len(payments) = 1
    /\ payments[1].status = "pending"
    /\ payments[1].razorpay_payment_id = None
    /\ refunds = << >>

\* Amounts a caller can hand to create_order: accepted by the payment form
\* (Amounts) and refused by it (LowAmounts).
Amounts == {100, 250, 500}
LowAmounts == {-1, 0, 99}

\* C12: when the gateway's order creation fails, create_order returns a
\* failure and the Payment rows (and the gateway's orders) are as before the
\* call; the payment initiation that made the call writes nothing.
C12_GatewayFailureCreatesNoPayment ==
    /\ \A session_id \in SessionIds, student_id \in Users, mentor_id \in Users,
          amount \in Amounts :
          PaymentService_create_order(session_id, student_id, mentor_id, amount, FALSE)
             = [success |-> FALSE, order_id |-> None, orders |-> orders,
                rows |-> payments]
    /\ \A u \in Users, sid \in SessionIds, form \in PaymentForms :
          LET r == initiate_payment(u, sid, form[1], form[2], FALSE)
          IN  r.payments = payments /\ r.orders = orders

\* A payment initiation for an accepted session ended in a gateway error and
\* there is no Payment row and no order.
C12_Witness ==
    /\ last = [op |-> "initiate_payment", resp |-> "gateway_error"]
    /\ \E i \in 1 .. Len(sessions) : sessions[i].status = "accepted"
    /\ payments = << >>
    /\ orders = << >>

\* C13: for every amount the payment form accepts, create_order sends the
\* gateway an order of 100 times the amount and appends one pending Payment
\* keyed by the returned order id and carrying the amount itself; every
\* Payment on record has its gateway order of 100 times its amount.
C13_OrderAmountInMinorUnits ==
    /\ \A session_id \in SessionIds, student_id \in Users, mentor_id \in Users,
          amount \in Amounts :
          LET result == PaymentService_create_order(
                            session_id, student_id, mentor_id, amount, TRUE)
              o == result.orders[Len(result.orders)]
              p == result.rows[Len(result.rows)]
          IN  PaymentForm_valid(amount, "card") =>
                /\ result.success
                /\ Len(result.orders) = Len(orders) + 1
                /\ Len(result.rows) = Len(payments) + 1
                /\ SubSeq(result.rows, 1, Len(payments)) = payments
                /\ o.id = result.order_id
                /\ o.amount = 100 * amount
                /\ p.razorpay_order_id = result.order_id
                /\ p.session_id = session_id
                /\ p.amount = amount
                /\ p.status = "pending"
    /\ \A k \in 1 .. Len(payments) :
          \E i \in 1 .. Len(orders) :
             /\ orders[i].id = payments[k].razorpay_order_id
             /\ orders[i].amount = 100 * payments[k].amount

\* A payment of 100 was initiated: the gateway holds an order of 10000 and
\* the Payment is pending with amount 100 under that order's id.
C13_Witness ==
    /\ last.op = "initiate_payment"
    /\ Len(payments) = 1
    /\ Len(orders) = 1
    /\ orders[1].amount = 10000
    /\ payments[1].amount = 100
    /\ payments[1].status = "pending"
    /\ payments[1].razorpay_order_id = orders[1].id

\* C14 as stated: create_order itself refuses a zero or negative amount: it
\* fails, creates no order and persists no Payment row, whatever the gateway
\* answers.
C14_CreateOrderRejectsNonPositive ==
    \A session_id \in SessionIds, student_id \in Users, mentor_id \in Users,
       amount \in {-1, 0}, gateway_ok \in BOOLEAN :
        PaymentService_create_order(session_id, student_id, mentor_id, amount, gateway_ok)
           = [success |-> FALSE, order_id |-> None, orders |-> orders,
              rows |-> payments]

\* C14 (amended): the amount is validated by the payment form, not by
\* create_order: a payment initiation with an amount below 100 (zero and
\* negative amounts included) never calls create_order; it creates no order
\* and no Payment row, and the student of an accepted session gets the form
\* back.
C14_FormRejectsLowAmount ==
    \A u \in Users, sid \in SessionIds, amount \in LowAmounts,
       method \in {"card", "cash"}, gateway_ok \in BOOLEAN :
        SessionExists(sid) =>
            LET r == initiate_payment(u, sid, amount, method, gateway_ok)
            IN  /\ r.orders = orders
                /\ r.payments = payments
                /\ (sessions[sid].student_id = u /\ sessions[sid].status = "accepted")
                      => r = Answer("page")

\* The student of an accepted session got the payment form back and there is
\* no order and no Payment row.
C14_Witness ==
    /\ last = [op |-> "initiate_payment", resp |-> "page"]
    /\ \E i \in 1 .. Len(sessions) : sessions[i].status = "accepted"
    /\ orders = << >>
    /\ payments = << >>

\* C15: in every reachable state a session has at most one Payment row.
C15_OnePaymentPerSession ==
    \A sid \in SessionIds :
        Cardinality({k \in 1 .. Len(payments) : payments[k].session_id = sid}) <= 1

\* C16: calendar events are per participant: when one participant of a
\* session holds a CalendarEvent for it and the other participant holds none,
\* the other participant's add_to_calendar is answered "created" and leaves a
\* CalendarEvent of the session owned by that participant.
C16_CalendarEventPerParticipant ==
    [][\A u \in Users, sid \in SessionIds :
          (/\ SessionExists(sid)
           /\ u \in {sessions[sid].student_id, sessions[sid].mentor_id}
           /\ \E e \in 1 .. Len(calendar_events) :
                 /\ calendar_events[e].session_id = sid
                 /\ calendar_events[e].user_id
                       \in {sessions[sid].student_id, sessions[sid].mentor_id} \ {u}
           /\ \A e \in 1 .. Len(calendar_events) :
                 ~(calendar_events[e].session_id = sid
                   /\ calendar_events[e].user_id = u)
           /\ Len(calendar_events) < MaxCalendarEvents
           /\ HandleCalendar("add_to_calendar", add_to_calendar(u, sid)))
             => /\ last'.resp = "created"
                /\ \E e \in 1 .. Len(calendar_events') :
                      /\ calendar_events'[e].session_id = sid
                      /\ calendar_events'[e].user_id = u]_vars

\* C17: each call of _send_email or _send_sms appends exactly one row to its
\* log, with status sent when the transport call succeeded and failed when it
\* raised, and returns a result (success or failure) to its caller: no
\* exception leaves the call.
C17_DispatchLogsOneRow ==
    /\ \A recipient \in Recipients, notification_type \in NotificationTypes,
          mail_ok \in BOOLEAN :
          LET r == EmailService_send_email_call(recipient, notification_type, mail_ok)
          IN  /\ ~r.raised
              /\ r.result.success = mail_ok
              /\ Len(r.rows) = Len(emails) + 1
              /\ SubSeq(r.rows, 1, Len(emails)) = emails
              /\ r.rows[Len(r.rows)].recipient = recipient
              /\ r.rows[Len(r.rows)].status = IF mail_ok THEN "sent" ELSE "failed"
    /\ \A phone_number \in Recipients, notification_type \in NotificationTypes,
          sms_ok \in BOOLEAN :
          LET r == SMSService_send_sms(phone_number, notification_type, sms_ok)
          IN  /\ ~r.raised
              /\ r.result.success = sms_ok
              /\ Len(r.rows) = Len(sms) + 1
              /\ SubSeq(r.rows, 1, Len(sms)) = sms
              /\ r.rows[Len(r.rows)].phone_number = phone_number
              /\ r.rows[Len(r.rows)].status = IF sms_ok THEN "sent" ELSE "failed"

\* Both dispatchers have been called with a failing transport: each log
\* holds a failed row, and the last call returned its failure.
C17_Witness ==
    /\ last = [op |-> "_send_sms", resp |-> "failed"]
    /\ \E i \in 1 .. Len(sms) : sms[i].status = "failed"
    /\ \E i \in 1 .. Len(emails) : emails[i].status = "failed"
    /\ \E i \in 1 .. Len(emails) : emails[i].status = "sent"

\* C18: a failing email transport does not undo or block the verification
\* that triggered it: when a callback verifies and the confirmation email
\* cannot be sent, the Payment is completed with its gateway payment id, the
\* request reports success, and the only trace of the failure is one failed
\* row in the email log.
C18_MailFailureKeepsPayment ==
    \A order_id \in OrderIds, payment_id \in GatewayPaymentIds,
       session_id \in SessionIds :
        LET result == PaymentService_verify_payment(
                          order_id, payment_id, Sign(order_id, payment_id))
            r == verify_payment(order_id, payment_id, Sign(order_id, payment_id),
                                session_id, FALSE)
        IN  (result.success /\ SessionExists(session_id)) =>
              /\ r.resp = "confirmed"
              /\ r.payments = result.rows
              /\ r.payments[result.payment_id].status = "completed"
              /\ r.payments[result.payment_id].razorpay_payment_id = payment_id
              /\ r.emails = Append(emails,
                    [recipient |-> payments[result.payment_id].student_id,
                     notification_type |-> "payment", status |-> "failed"])
              /\ r.sessions = sessions

\* A verification was reported successful, its confirmation email failed,
\* and the Payment is completed.
C18_Witness ==
    /\ last = [op |-> "verify_payment", resp |-> "confirmed"]
    /\ Len(emails) = 1
    /\ emails[1].status = "failed"
    /\ \E k \in 1 .. Len(payments) : payments[k].status = "completed"

\* C19: every step of the happy path succeeds: a student's valid booking adds
\* a requested session; the mentor's accept of a requested session makes it
\* accepted and notifies the student; the student's valid payment initiation
\* for the accepted session, the gateway accepting the order, is answered
\* with the checkout page and adds a pending Payment of the amount; a callback
\* with the valid signature for a pending Payment makes it completed; a
\* participant's add_to_calendar for a session without an event creates one
\* starting at the session's time and ending one hour later.
C19_HappyPathSucceeds ==
    [][/\ \A u \in Users, user_id \in Users, when \in Times :
            (/\ is_student(u)
             /\ role[user_id] = "mentor"
             /\ Handle("mentor_detail", mentor_detail(u, user_id, when)))
               => /\ last'.resp = "requested"
                  /\ sessions' = Append(sessions,
                        [student_id |-> u, mentor_id |-> user_id,
                         scheduled_at |-> when, status |-> "requested"])
       /\ \A u \in Users, sid \in SessionIds :
            (/\ SessionExists(sid)
             /\ sessions[sid].status = "requested"
             /\ sessions[sid].mentor_id = u
             /\ is_mentor(u)
             /\ Handle("respond_request", respond_request(u, sid, "accept")))
               => /\ last'.resp = "recorded"
                  /\ sessions'[sid].status = "accepted"
                  /\ Len(notifications') = Len(notifications) + 1
                  /\ notifications'[Len(notifications')].user_id
                        = sessions[sid].student_id
       /\ \A u \in Users, sid \in SessionIds, amount \in Amounts :
            (/\ SessionExists(sid)
             /\ sessions[sid].status = "accepted"
             /\ sessions[sid].student_id = u
             /\ Handle("initiate_payment",
                       initiate_payment(u, sid, amount, "card", TRUE)))
               => /\ last'.resp = "checkout"
                  /\ Len(payments') = Len(payments) + 1
                  /\ payments'[Len(payments')].status = "pending"
                  /\ payments'[Len(payments')].amount = amount
       /\ \A order_id \in OrderIds, payment_id \in GatewayPaymentIds,
             session_id \in SessionIds \cup {None}, mail_ok \in BOOLEAN :
            LET k == first({i \in 1 .. Len(payments) :
                              payments[i].razorpay_order_id = order_id})
            IN  (/\ k # None
                 /\ payments[k].status = "pending"
                 /\ Handle("verify_payment",
                           verify_payment(order_id, payment_id,
                                          Sign(order_id, payment_id),
                                          session_id, mail_ok)))
                   => /\ last'.resp = "confirmed"
                      /\ payments'[k].status = "completed"
       /\ \A u \in Users, sid \in SessionIds :
            (/\ SessionExists(sid)
             /\ u \in {sessions[sid].student_id, sessions[sid].mentor_id}
             /\ \A e \in 1 .. Len(calendar_events) :
                   calendar_events[e].session_id # sid
             /\ HandleCalendar("add_to_calendar", add_to_calendar(u, sid)))
               => /\ last'.resp = "created"
                  /\ calendar_events'[Len(calendar_events')].start_time
                        = sessions[sid].scheduled_at
                  /\ calendar_events'[Len(calendar_events')].end_time
                        = sessions[sid].scheduled_at + EventHours]_vars

\* C20: of two status changes of one Session that both read it before either
\* commits, at most one takes effect: a request committing after the status
\* it read has been changed by another commit does not overwrite the
\* committed status.
C20_ConcurrentTransitionConflicts ==
    [][\A w \in Workers :
          (/\ inflight[w] # Idle
           /\ commit(w)
           /\ sessions[inflight[w].sid].status # inflight[w].read)
             => sessions'[inflight[w].sid].status
                   = sessions[inflight[w].sid].status]_vars

\* C22: a refund request for the Payment of a session by a logged-in user who
\* is neither the session's student nor its mentor nor an admin is answered
\* 403: no refund is issued at the gateway and nothing is written.
C22_RefundForbiddenToOutsiders ==
    \A u \in Users, sid \in SessionIds, gateway_ok \in BOOLEAN :
        (/\ SessionExists(sid)
         /\ \E k \in 1 .. Len(payments) : payments[k].session_id = sid
         /\ u \notin {sessions[sid].student_id, sessions[sid].mentor_id}
         /\ ~is_admin(u))
           => refund_payment(u, sid, gateway_ok) = Answer("403")

\* A refund request was answered 403 while the session's Payment is verified
\* and completed, and the gateway issued no refund.
C22_Witness ==
    /\ last = [op |-> "refund_payment", resp |-> "403"]
    /\ \E k \in 1 .. Len(payments) :
          /\ payments[k].status = "completed"
          /\ payments[k].razorpay_payment_id # None
    /\ refunds = << >>

\* C25: in every reachable state the status of every session is requested,
\* accepted, declined or completed; a booking appends its session as
\* requested; and a respond_request whose action is neither accept nor
\* decline writes nothing: the status is as it was and no notification is
\* added.
C25_StatusDomain ==
    /\ \A i \in 1 .. Len(sessions) : sessions[i].status \in {"requested", "accepted", "declined", "completed"}
    /\ \A u \in Actors, user_id \in Users, when \in Times \cup {None} :
          LET r == mentor_detail(u, user_id, when)
          IN  \/ r.sessions = sessions
              \/ /\ Len(r.sessions) = Len(sessions) + 1
                 /\ SubSeq(r.sessions, 1, Len(sessions)) = sessions
                 /\ r.sessions[Len(r.sessions)].status = "requested"
    /\ \A u \in Users, sid \in SessionIds :
          SessionExists(sid) =>
             LET r == respond_request(u, sid, "other")
             IN  /\ r.resp \in {"403", "recorded"}
                 /\ r.sessions = sessions
                 /\ r.notifications = notifications

\* A mentor's response with an unknown action was recorded: the session it
\* named is still requested and the only notifications are booking requests.
C25_Witness ==
    /\ last = [op |-> "respond_request", resp |-> "recorded"]
    /\ Len(sessions) = 1
    /\ sessions[1].status = "requested"
    /\ \A n \in 1 .. Len(notifications) : notifications[n].kind = "request"

\* C26: a verify_payment call with the valid signature of an order id that has
\* a Payment row (the gateway issues a payment id once, so no other row
\* carries it) succeeds and writes that row and no other: the row becomes
\* completed with the payment id stamped, every other Payment row is as it
\* was, and the request leaves every Session row as it was.
C26_VerifyWritesOnlyItsPayment ==
    \A order_id \in OrderIds, payment_id \in GatewayPaymentIds :
        LET k == first({i \in 1 .. Len(payments) :
                           payments[i].razorpay_order_id = order_id})
            result == PaymentService_verify_payment(
                         order_id, payment_id, Sign(order_id, payment_id))
        IN  (/\ k # None
             /\ \A j \in 1 .. Len(payments) :
                   j # k => payments[j].razorpay_payment_id # payment_id)
               => /\ result.success
                  /\ result.rows = [payments EXCEPT
                                      ![k].status = "completed",
                                      ![k].razorpay_payment_id = payment_id]
                  /\ \A session_id \in SessionIds, mail_ok \in BOOLEAN :
                        LET r == verify_payment(order_id, payment_id,
                                    Sign(order_id, payment_id), session_id, mail_ok)
                        IN  /\ r.resp = "confirmed"
                            /\ r.payments = result.rows
                            /\ r.sessions = sessions

\* A verification went through while a second Payment was on record: that one
\* is still pending and carries no payment id.
C26_Witness ==
    /\ last = [op |-> "verify_payment", resp |-> "confirmed"]
    /\ Len(payments) = 2
    /\ \E k \in 1 .. 2 :
          /\ payments[k].status = "completed"
          /\ payments[k].razorpay_payment_id # None
          /\ payments[3 - k].status = "pending"
          /\ payments[3 - k].razorpay_payment_id = None

\* C27: a verify_payment call whose signature is valid but whose order id is
\* the order id of no Payment row fails: the service reports a failure and
\* writes no Payment row, and the request is answered with the error, logs no
\* confirmation email and changes nothing.
C27_VerifyUnknownOrderFails ==
    \A order_id \in OrderIds, payment_id \in GatewayPaymentIds :
        LET result == PaymentService_verify_payment(
                         order_id, payment_id, Sign(order_id, payment_id))
        IN  (\A i \in 1 .. Len(payments) :
                 payments[i].razorpay_order_id # order_id)
               => /\ ~result.success
                  /\ result.rows = payments
                  /\ \A session_id \in SessionIds, mail_ok \in BOOLEAN :
                        verify_payment(order_id, payment_id,
                           Sign(order_id, payment_id), session_id, mail_ok)
                        = Answer("not_found")

\* A verification for an unknown order id was refused while a Payment of
\* another order was on record, still pending, and no email was logged.
C27_Witness ==
    /\ last = [op |-> "verify_payment", resp |-> "not_found"]
    /\ Len(payments) = 1
    /\ payments[1].status = "pending"
    /\ emails = << >>

\* C28: refund_payment writes refunded only after the gateway refund went
\* through.  When the gateway call fails the service reports a failure and the
\* Payment rows (status, gateway payment id) and the gateway's refunds are as
\* they were; when it writes refunded, the gateway has recorded the refund of
\* that payment id; and every refunded Payment has a refund at the gateway.
C28_RefundedOnlyAfterGatewayRefund ==
    /\ \A pid \in 1 .. Len(payments) :
          LET failed == PaymentService_refund_payment(pid, FALSE)
              passed == PaymentService_refund_payment(pid, TRUE)
          IN  /\ ~failed.success
              /\ failed.rows = payments
              /\ failed.refunds = refunds
              /\ passed.rows # payments =>
                    /\ passed.success
                    /\ passed.rows = [payments EXCEPT ![pid].status = "refunded"]
                    /\ passed.refunds = Append(refunds,
                          [payment_id |-> payments[pid].razorpay_payment_id])
    /\ \A u \in Users, sid \in SessionIds :
          LET r == refund_payment(u, sid, FALSE)
          IN  r.payments = payments /\ r.refunds = refunds /\ r.resp # "refunded"
    /\ \A k \in 1 .. Len(payments) :
          payments[k].status = "refunded" =>
             \E j \in 1 .. Len(refunds) :
                refunds[j].payment_id = payments[k].razorpay_payment_id

\* The gateway refused the refund of a verified Payment: the Payment is still
\* completed with its payment id and the gateway holds no refund.
C28_Witness ==
    /\ last = [op |-> "refund_payment", resp |-> "gateway_error"]
    /\ Len(payments) = 1
    /\ payments[1].status = "completed"
    /\ payments[1].razorpay_payment_id # None
    /\ refunds = << >>

\* C29: a payment initiation for a session by a user who is not the session's
\* student is answered 403 with no gateway order and no Payment row written,
\* whatever the form and the gateway do; and every Payment row carries the
\* student_id and mentor_id of its session.
C29_OnlyStudentInitiatesPayment ==
    /\ \A u \in Users, sid \in SessionIds, form \in PaymentForms,
          gateway_ok \in BOOLEAN :
          (SessionExists(sid) /\ sessions[sid].student_id # u)
             => initiate_payment(u, sid, form[1], form[2], gateway_ok)
                   = Answer("403")
    /\ \A k \in 1 .. Len(payments) :
          /\ SessionExists(payments[k].session_id)
          /\ payments[k].student_id = sessions[payments[k].session_id].student_id
          /\ payments[k].mentor_id = sessions[payments[k].session_id].mentor_id

\* A payment initiation was refused with 403 for an accepted session whose
\* student had already initiated a payment.
C29_Witness ==
    /\ last = [op |-> "initiate_payment", resp |-> "403"]
    /\ \E k \in 1 .. Len(payments) :
          /\ sessions[payments[k].session_id].status = "accepted"
          /\ payments[k].student_id = sessions[payments[k].session_id].student_id
    /\ Len(orders) = Len(payments)

\* C30: every CalendarEvent row starts at the scheduled_at of its session and
\* ends exactly one hour later, and belongs to the session's student or
\* mentor; a request to add a session to the calendar by anyone else is
\* answered 403 and writes no row, and a row that is written is the one of the
\* requesting participant with these times.
C30_CalendarEventTimesAndOwner ==
    /\ \A e \in 1 .. Len(calendar_events) :
          LET s == calendar_events[e].session_id
          IN  /\ SessionExists(s)
              /\ calendar_events[e].start_time = sessions[s].scheduled_at
              /\ calendar_events[e].end_time = calendar_events[e].start_time + 1
              /\ calendar_events[e].user_id
                    \in {sessions[s].student_id, sessions[s].mentor_id}
    /\ \A u \in Users, sid \in SessionIds :
          LET r == add_to_calendar(u, sid)
          IN  SessionExists(sid) =>
                 /\ u \notin {sessions[sid].student_id, sessions[sid].mentor_id}
                       => r = [resp |-> "403", calendar_events |-> calendar_events]
                 /\ r.calendar_events # calendar_events
                       => /\ r.resp = "created"
                          /\ Len(r.calendar_events) = Len(calendar_events) + 1
                          /\ LET row == r.calendar_events[Len(r.calendar_events)]
                             IN  /\ row.session_id = sid
                                 /\ row.user_id = u
                                 /\ row.start_time = sessions[sid].scheduled_at
                                 /\ row.end_time = sessions[sid].scheduled_at + 1

\* Two sessions booked for different times are both in a calendar, each event
\* with its own session's hour, and a request by a user outside the session
\* has just been refused.
C30_Witness ==
    /\ last = [op |-> "add_to_calendar", resp |-> "403"]
    /\ Len(calendar_events) = 2
    /\ calendar_events[1].start_time # calendar_events[2].start_time
    /\ calendar_events[1].user_id # calendar_events[2].user_id

\* C23: send_calendar_reminder for a user at instant now with days_before = 1
\* (the value the route passes) succeeds and sets notification_sent on exactly
\* the user's CalendarEvents whose flag is false and whose session is
\* scheduled within [now, now + 1 day] with status accepted or completed; it
\* returns the number of these events and leaves every other row as it was.
C23_ReminderFlagsExactlyDueEvents ==
    \A u \in Users, now \in Clocks :
        LET due == {e \in 1 .. Len(calendar_events) :
                       /\ calendar_events[e].user_id = u
                       /\ ~calendar_events[e].notification_sent
                       /\ LET s == sessions[calendar_events[e].session_id]
                          IN  /\ now <= s.scheduled_at
                              /\ s.scheduled_at <= now + 24
                              /\ s.status \in {"accepted", "completed"}}
            result == CalendarService_send_calendar_reminder(u, now, 1)
        IN  /\ result.success
            /\ result.reminders_sent = Cardinality(due)
            /\ result.rows =
                  [e \in 1 .. Len(calendar_events) |->
                      IF e \in due
                      THEN [calendar_events[e] EXCEPT !.notification_sent = TRUE]
                      ELSE calendar_events[e]]

\* C24: get_calendar_export for a user succeeds with exactly one event for
\* each session whose student or mentor the user is and with no other event,
\* whatever the user's role is at the time; with no such session the calendar
\* has no event.
C24_ExportOneEventPerOwnSession ==
    \A u \in Users :
        LET result == CalendarService_get_calendar_export(u)
            own == {s \in 1 .. Len(sessions) :
                       u \in {sessions[s].student_id, sessions[s].mentor_id}}
        IN  /\ result.success
            /\ Len(result.events) = Cardinality(own)
            /\ \A s \in own :
                  Cardinality({i \in 1 .. Len(result.events) :
                                  result.events[i].uid = ical_uid(s, u)}) = 1

\* C21: every request that commits a change to a table (users, sessions,
\* reviews, payments, notifications, notification logs, calendar events)
\* leaves the response cache empty, so that no page stored before the change
\* can be served after it.
C21_MutationClearsCache ==
    [][<<role, sessions, reviews, payments, notifications, emails,
         calendar_events, sms>>'
          # <<role, sessions, reviews, payments, notifications, emails,
              calendar_events, sms>>
       => cache' = EmptyCache]_vars

\* C31: no two CalendarEvent rows share their (session_id, user_id) pair or
\* their ical_uid, and create_calendar_event by a user for a session for which
\* that user already has a row returns a failure and adds no row.
C31_CalendarEventsUnique ==
    /\ \A e, f \in 1 .. Len(calendar_events) :
          e # f =>
             /\ <<calendar_events[e].session_id, calendar_events[e].user_id>>
                   # <<calendar_events[f].session_id, calendar_events[f].user_id>>
             /\ calendar_events[e].ical_uid # calendar_events[f].ical_uid
    /\ \A e \in 1 .. Len(calendar_events) :
          LET result == CalendarService_create_calendar_event(
                           calendar_events[e].session_id,
                           calendar_events[e].user_id)
          IN  /\ ~result.success
              /\ result.rows = calendar_events
              /\ add_to_calendar(calendar_events[e].user_id,
                                 calendar_events[e].session_id).calendar_events
                    = calendar_events

\* A request to add a session to the calendar failed on the constraint while
\* both sessions had their event, owned by different users.
C31_Witness ==
    /\ last = [op |-> "add_to_calendar", resp |-> "integrity"]
    /\ Len(calendar_events) = 2
    /\ calendar_events[1].session_id # calendar_events[2].session_id
    /\ calendar_events[1].user_id # calendar_events[2].user_id

\* C32: no request turns a CalendarEvent's notification_sent from true to
\* false, and send_calendar_reminder counts exactly the events whose flag it
\* turns from false to true: an event whose flag is already true is left as
\* it is and is not counted again, whoever asks and whenever.
C32_ReminderCountedOnce ==
    /\ \A u \in Users, sid \in SessionIds, now \in Clocks :
          LET r == send_calendar_reminder(u, sid, now)
          IN  /\ Len(r.calendar_events) = Len(calendar_events)
              /\ \A e \in 1 .. Len(calendar_events) :
                    calendar_events[e].notification_sent
                       => r.calendar_events[e] = calendar_events[e]
              /\ r.reminders_sent =
                    Cardinality({e \in 1 .. Len(calendar_events) :
                                    /\ ~calendar_events[e].notification_sent
                                    /\ r.calendar_events[e].notification_sent})
    /\ \A u \in Users, sid \in SessionIds :
          LET r == add_to_calendar(u, sid)
          IN  \A e \in 1 .. Len(calendar_events) :
                 r.calendar_events[e] = calendar_events[e]
    /\ \A u \in Users, valid \in BOOLEAN :
          export_calendar(u, valid).calendar_events = calendar_events

\* A reminder was requested while an event was already flagged as sent and
\* another one was not.
C32_Witness ==
    /\ last = [op |-> "send_calendar_reminder", resp |-> "redirect"]
    /\ Len(calendar_events) = 2
    /\ calendar_events[1].notification_sent
    /\ ~calendar_events[2].notification_sent

\* C33: a verification callback that succeeds logs, in the same request,
\* exactly one payment-confirmation email attempt addressed to the student of
\* the Payment it verified, whatever the session_id field of the callback is.
C33_VerificationSendsOneConfirmation ==
    \A order_id \in OrderIds, payment_id \in GatewayPaymentIds,
       session_id \in SessionIds \cup {None}, mail_ok \in BOOLEAN :
        LET result == PaymentService_verify_payment(
                          order_id, payment_id, Sign(order_id, payment_id))
            r == verify_payment(order_id, payment_id, Sign(order_id, payment_id),
                                session_id, mail_ok)
        IN  result.success =>
              /\ Len(r.emails) = Len(emails) + 1
              /\ SubSeq(r.emails, 1, Len(emails)) = emails
              /\ r.emails[Len(r.emails)].notification_type = "payment"
              /\ r.emails[Len(r.emails)].recipient
                    = payments[result.payment_id].student_id

\* C34: the role of every user is student, mentor or admin and is the role
\* the user registered with, whatever requests are made, the administrator's
\* included.
C34_RoleNeverChanges ==
    \A u \in Users :
        /\ role[u] \in {"student", "mentor", "admin"}
        /\ role[u] = RegisteredRole(u)

\* C35: a payment initiation whose gateway order was created ends well: each
\* time the request adds a Payment row, the row carries the payment method of
\* the form and the response is the checkout page with the order.
C35_InitiatePaymentCompletes ==
    \A u \in Users, sid \in SessionIds, form \in PaymentForms :
        LET r == initiate_payment(u, sid, form[1], form[2], TRUE)
        IN  Len(r.payments) > Len(payments) =>
               /\ r.payments[Len(r.payments)].payment_method = form[2]
               /\ r.orders # orders
               /\ r.resp = "checkout"

\* C36: the page my_sessions serves to a logged-in user lists only sessions
\* whose student or mentor that user is, also when the page comes from the
\* response cache after the request of another user.
C36_MySessionsListsOwnSessions ==
    \A u \in Users :
        \A row \in my_sessions(u).page :
            /\ SessionExists(row[1])
            /\ u \in {sessions[row[1]].student_id, sessions[row[1]].mentor_id}

\* C37: in every reachable state the status of every Payment is pending,
\* completed, failed or refunded, and a completed or refunded Payment carries
\* a gateway payment id; a refund turns a Payment refunded only if a
\* verification has stamped its payment id before.
C37_PaymentStatusDomain ==
    /\ \A k \in 1 .. Len(payments) :
          /\ payments[k].status \in {"pending", "completed", "failed", "refunded"}
          /\ payments[k].status \in {"completed", "refunded"}
                => payments[k].razorpay_payment_id # None
    /\ \A pid \in 1 .. Len(payments), gateway_ok \in BOOLEAN :
          LET result == PaymentService_refund_payment(pid, gateway_ok)
          IN  \A k \in 1 .. Len(payments) :
                 (result.rows[k].status = "refunded"
                     /\ payments[k].status # "refunded")
                    => /\ k = pid
                       /\ payments[k].razorpay_payment_id # None
                       /\ result.rows[k].razorpay_payment_id
                             = payments[k].razorpay_payment_id

\* A verified Payment has been refunded and keeps its payment id, while a
\* second Payment of the session is pending without one.
C37_Witness ==
    /\ last = [op |-> "refund_payment", resp |-> "refunded"]
    /\ Len(payments) = 2
    /\ \E k \in 1 .. 2 :
          /\ payments[k].status = "refunded"
          /\ payments[k].razorpay_payment_id # None
          /\ payments[3 - k].status = "pending"
          /\ payments[3 - k].razorpay_payment_id = None

\* C38: a Payment is refunded at the gateway at most once: refund_payment for
\* a Payment whose status is already refunded fails and issues no further
\* refund at the gateway, whatever the gateway would answer.
C38_RefundedOnlyOnce ==
    \A pid \in 1 .. Len(payments), gateway_ok \in BOOLEAN :
        payments[pid].status = "refunded" =>
           LET result == PaymentService_refund_payment(pid, gateway_ok)
           IN  /\ ~result.success
               /\ result.refunds = refunds

\* C39: when a session has a completed Payment, a refund request for the
\* session by its student or mentor, the gateway refund succeeding, turns that
\* completed Payment refunded, however many other Payment rows the session
\* has.
C39_RefundReachesCompletedPayment ==
    \A u \in Users, sid \in SessionIds :
        (SessionExists(sid)
            /\ u \in {sessions[sid].student_id, sessions[sid].mentor_id})
           => LET r == refund_payment(u, sid, TRUE)
              IN  \A k \in 1 .. Len(payments) :
                     (payments[k].session_id = sid
                         /\ payments[k].status = "completed")
                        => r.payments[k].status = "refunded"
====
